---- MODULE Spec2Model ----
(***************************************************************************)
(* Model of synapse/rest/media/v1/thumbnailer.py: the Thumbnailer class.   *)
(* One Thumbnailer instance, constructed from one source file, on which    *)
(* transpose, aspect, scale and crop are called in any order.              *)
(*                                                                         *)
(* A raster is modelled by its size, by the position of the four corners   *)
(* of the decoded picture (so that a flip or rotation is visible, and so   *)
(* is applying one twice) and by whether info["exif"] is still set.        *)
(***************************************************************************)
EXTENDS Integers, Sequences, FiniteSets, TLC

\* ------------------------------------------------------------------ bounds

\* Source rasters are MaxDim x MaxDim at most (plus the documented examples).
MaxDim == 3
\* Valid requested widths and heights range over 1 .. MaxReq (plus the examples).
MaxReq == 2

\* Source sizes of the documented scenarios.
ExampleSizes == {<<640, 480>>, <<100, 50>>}
\* Requested boxes of the documented scenarios.
ExampleRequests == {<<100, 100>>, <<200, 200>>}

SourceSizes == ((1..MaxDim) \X (1..MaxDim)) \cup ExampleSizes
\* Requests with a zero or negative width or height.
InvalidRequests == {<<0, 0>>, <<0, 1>>, <<1, 0>>, <<-1, 1>>, <<1, -1>>, <<-1, -1>>}
Requests == ((1..MaxReq) \X (1..MaxReq)) \cup ExampleRequests \cup InvalidRequests
OutputTypes == {"image/jpeg", "image/png", "image/gif"}

\* What the source file's EXIF container holds for the orientation tag:
\*   absent      _getexif() returns None
\*   raises      _getexif() raises while parsing
\*   notag       an EXIF dict without the orientation key
\*   text        an orientation value that is not a number
\*   int         an integer orientation value
Metas ==
    {[kind |-> k, value |-> 0] : k \in {"absent", "raises", "notag", "text"}}
    \cup {[kind |-> "int", value |-> v] : v \in 0..9}

Sources == {[size |-> s, meta |-> m] : s \in SourceSizes, m \in Metas}

\* ------------------------------------------------------------ program data

\* Mutant: the entries of tags 4 and 5 exchanged.
EXIF_TRANSPOSE_MAPPINGS_4and5 ==
    [t \in 2..8 |->
        CASE t = 2 -> "FLIP_LEFT_RIGHT"
          [] t = 3 -> "ROTATE_180"
          [] t = 4 -> "TRANSPOSE"
          [] t = 5 -> "FLIP_TOP_BOTTOM"
          [] t = 6 -> "ROTATE_270"
          [] t = 7 -> "TRANSVERSE"
          [] t = 8 -> "ROTATE_90"]

EXIF_TRANSPOSE_MAPPINGS ==
    [t \in 2..8 |->
        CASE t = 2 -> "FLIP_LEFT_RIGHT"
          [] t = 3 -> "ROTATE_180"
          [] t = 4 -> "FLIP_TOP_BOTTOM"
          [] t = 5 -> "TRANSPOSE"
          [] t = 6 -> "ROTATE_270"
          [] t = 7 -> "TRANSVERSE"
          [] t = 8 -> "ROTATE_90"]

FORMATS == [t \in {"image/jpeg", "image/png"} |->
               IF t = "image/jpeg" THEN "JPEG" ELSE "PNG"]

\* quality=80 in _encode_image
Quality == 80

\* ---------------------------------------------------------- PIL operations

\* Image.open: the decoded raster, corners <<top-left, top-right,
\* bottom-right, bottom-left>> in place, info["exif"] set when the file has one.
Open(src) ==
    [size |-> src.size,
     corners |-> <<1, 2, 3, 4>>,
     exif |-> src.meta.kind # "absent"]

\* The methods of Image.transpose that exchange width and height.
SwapMethods == {"TRANSPOSE", "ROTATE_270", "TRANSVERSE", "ROTATE_90"}

\* Where each corner of the picture ends up under a transpose method.
Permute(c, method) ==
    CASE method = "FLIP_LEFT_RIGHT" -> <<c[2], c[1], c[4], c[3]>>
      [] method = "FLIP_TOP_BOTTOM" -> <<c[4], c[3], c[2], c[1]>>
      [] method = "ROTATE_180"      -> <<c[3], c[4], c[1], c[2]>>
      [] method = "ROTATE_90"       -> <<c[2], c[3], c[4], c[1]>>
      [] method = "ROTATE_270"      -> <<c[4], c[1], c[2], c[3]>>
      [] method = "TRANSPOSE"       -> <<c[1], c[4], c[3], c[2]>>
      [] method = "TRANSVERSE"      -> <<c[3], c[2], c[1], c[4]>>

\* Image.transpose(method): a new raster.
PILTranspose(img, method) ==
    [size |-> IF method \in SwapMethods
                 THEN <<img.size[2], img.size[1]>>
                 ELSE img.size,
     corners |-> Permute(img.corners, method),
     exif |-> img.exif]

\* Image.resize(size, ANTIALIAS): a new raster of exactly that size; PIL refuses
\* a size below 1 x 1 ("height and width must be > 0").
PILResize(img, size) ==
    IF size[1] < 1 \/ size[2] < 1
       THEN [raised |-> "ValueError", image |-> img]
       ELSE [raised |-> "None",
             image |-> [size |-> size, corners |-> img.corners, exif |-> img.exif]]

\* Image.crop(box), box = (left, upper, right, lower): a new raster of size
\* (right - left, lower - upper). For a box whose right is left of its left (or
\* lower above upper) PIL releases differ: some raise ValueError, some give an
\* empty raster; both outcomes are kept.
PILCrop(img, box) ==
    LET cw == box[3] - box[1]
        ch == box[4] - box[2]
        clamp(n) == IF n < 0 THEN 0 ELSE n
        made == [raised |-> "None",
                 image |-> [size |-> <<clamp(cw), clamp(ch)>>,
                            corners |-> img.corners, exif |-> img.exif]]
    IN  IF cw < 0 \/ ch < 0
           THEN {made, [raised |-> "ValueError", image |-> img]}
           ELSE {made}

\* Image.save(buffer, format, quality=80): the encoded bytes, described by what
\* they decode to. Saving an empty raster fails in some PIL releases and for
\* some formats; both outcomes are kept.
PILSave(img, format, quality) ==
    LET bytes == [format |-> format, size |-> img.size,
                  corners |-> img.corners, quality |-> quality]
    IN  IF img.size[1] < 1 \/ img.size[2] < 1
           THEN {[raised |-> "None", out |-> <<bytes>>],
                 [raised |-> "SaveError", out |-> <<>>]}
           ELSE {[raised |-> "None", out |-> <<bytes>>]}

\* ------------------------------------------------------------------- state

VARIABLES
    source,            \* the input file: its raster size and its EXIF metadata
    init_raised,       \* the exception __init__ let out ("None": constructed)
    image,             \* self.image
    width,             \* self.width
    height,            \* self.height
    transpose_method,  \* self.transpose_method ("None" for None)
    ret,               \* the last call: its arguments and what it returned or raised
    hist               \* history of transpose(): rasters transposed (counted 0, 1,
                       \* 2 = more than one) and what the first call returned

vars == <<source, init_raised, image, width, height, transpose_method, ret, hist>>

\* A call record; the fields a call does not use stay as here. nth tells a
\* first transpose() (1) from a later one (2).
NoCall ==
    [op |-> "init", nth |-> 0, w |-> 0, h |-> 0, fmt |-> "",
     raised |-> "None", stage |-> "none",
     value |-> <<>>, scaled |-> <<>>, box |-> <<>>, out |-> <<>>]

Bump(n) == IF n < 2 THEN n + 1 ELSE 2

\* ------------------------------------------------------------- __init__

\* The body of the try block: _getexif(), the tag lookup, the mapping lookup.
\* raised: an exception left the block; method: what transpose_method was set to.
ParseOrientation(meta) ==
    CASE meta.kind = "absent"     -> [raised |-> FALSE, method |-> "None"]
      [] meta.kind = "raises"     -> [raised |-> TRUE,  method |-> "None"]
      [] meta.kind = "notag"      -> [raised |-> FALSE, method |-> "None"]
      [] meta.kind = "text"       -> [raised |-> FALSE, method |-> "None"]
      [] meta.kind = "int"        ->
            [raised |-> FALSE,
             method |-> IF meta.value \in DOMAIN EXIF_TRANSPOSE_MAPPINGS
                           THEN EXIF_TRANSPOSE_MAPPINGS[meta.value]
                           ELSE "None"]

\* Mutant: no except clause, an EXIF parsing error leaves __init__.
ConstructNoExcept(src) ==
    LET opened == Open(src)
        parsed == ParseOrientation(src.meta)
    IN  [image |-> opened,
         width |-> opened.size[1],
         height |-> opened.size[2],
         transpose_method |-> parsed.method,
         raised |-> IF parsed.raised THEN "Exception" ELSE "None"]

\* __init__: open, read the size, then the try/except around the EXIF parse.
Construct(src) ==
    LET opened == Open(src)
        parsed == ParseOrientation(src.meta)
    IN  [image |-> opened,
         width |-> opened.size[1],
         height |-> opened.size[2],
         transpose_method |-> IF parsed.raised THEN "None" ELSE parsed.method,
         raised |-> "None"]

Init ==
    /\ source \in Sources
    /\ init_raised = Construct(source).raised
    /\ image = Construct(source).image
    /\ width = Construct(source).width
    /\ height = Construct(source).height
    /\ transpose_method = Construct(source).transpose_method
    /\ ret = NoCall
    /\ hist = [applied |-> 0, first |-> <<>>]

\* ------------------------------------------------------------- transpose

\* Mutant: width and height are not read again from the new raster.
StoredSizeStale(newimage) == <<width, height>>

\* self.width, self.height = self.image.size
StoredSize(newimage) == newimage.size

\* Mutant: the pending method is not cleared.
ClearedMethodKept == transpose_method

\* self.transpose_method = None
ClearedMethod == "None"

Transpose ==
    /\ init_raised = "None"
    /\ LET pending == transpose_method # "None"
           newimage == IF pending
                          THEN [PILTranspose(image, transpose_method) EXCEPT !.exif = FALSE]
                          ELSE image
       IN  /\ image' = newimage
           /\ width' = IF pending THEN StoredSize(newimage)[1] ELSE width
           /\ height' = IF pending THEN StoredSize(newimage)[2] ELSE height
           /\ transpose_method' = IF pending THEN ClearedMethod ELSE transpose_method
           /\ ret' = [NoCall EXCEPT !.op = "transpose",
                                    !.nth = IF hist.first = <<>> THEN 1 ELSE 2,
                                    !.value = newimage.size]
           /\ hist' = [applied |-> IF pending THEN Bump(hist.applied) ELSE hist.applied,
                       first |-> IF hist.first = <<>> THEN newimage.size ELSE hist.first]
    /\ UNCHANGED <<source, init_raised>>

\* ---------------------------------------------------------------- aspect

\* Mutant: the comparison turned round.
AspectResultTurned(max_width, max_height) ==
    IF max_width * height > max_height * width
       THEN <<max_width, (max_width * height) \div width>>
       ELSE <<(max_height * width) \div height, max_height>>

AspectResult(max_width, max_height) ==
    IF max_width * height < max_height * width
       THEN <<max_width, (max_width * height) \div width>>
       ELSE <<(max_height * width) \div height, max_height>>

Aspect ==
    /\ init_raised = "None"
    /\ \E req \in Requests :
          ret' = [NoCall EXCEPT !.op = "aspect", !.w = req[1], !.h = req[2],
                                !.value = AspectResult(req[1], req[2])]
    /\ UNCHANGED <<source, init_raised, image, width, height, transpose_method, hist>>

\* --------------------------------------------------------- _encode_image

\* Mutant: an unknown output type falls back to PNG.
EncodeImageFallback(output_image, output_type) ==
    LET format == IF output_type \in DOMAIN FORMATS THEN FORMATS[output_type] ELSE "PNG"
    IN  {[raised |-> s.raised,
          stage |-> IF s.raised = "None" THEN "none" ELSE "save",
          out |-> s.out] : s \in PILSave(output_image, format, Quality)}

\* The FORMATS lookup, then save: [raised, stage, out].
EncodeImage(output_image, output_type) ==
    IF output_type \notin DOMAIN FORMATS
       THEN {[raised |-> "KeyError", stage |-> "encode", out |-> <<>>]}
       ELSE {[raised |-> s.raised,
              stage |-> IF s.raised = "None" THEN "none" ELSE "save",
              out |-> s.out] :
                s \in PILSave(output_image, FORMATS[output_type], Quality)}

\* ----------------------------------------------------------------- scale

\* What scale(w, h, output_type) does: the call records it can end in.
ScaleCalls(w, h, output_type) ==
    LET call == [NoCall EXCEPT !.op = "scale", !.w = w, !.h = h, !.fmt = output_type,
                               !.scaled = <<w, h>>]
        scaled == PILResize(image, <<w, h>>)
    IN  IF scaled.raised # "None"
           THEN {[call EXCEPT !.raised = scaled.raised, !.stage = "resize"]}
           ELSE {[call EXCEPT !.raised = e.raised, !.stage = e.stage, !.out = e.out] :
                    e \in EncodeImage(scaled.image, output_type)}

\* Mutant: the resized raster is stored on the instance.
ScaleInPlace ==
    /\ init_raised = "None"
    /\ \E req \in Requests, t \in OutputTypes :
          /\ ret' \in ScaleCalls(req[1], req[2], t)
          /\ image' = PILResize(image, <<req[1], req[2]>>).image
    /\ UNCHANGED <<source, init_raised, width, height, transpose_method, hist>>

Scale ==
    /\ init_raised = "None"
    /\ \E req \in Requests, t \in OutputTypes :
          ret' \in ScaleCalls(req[1], req[2], t)
    /\ UNCHANGED <<source, init_raised, image, width, height, transpose_method, hist>>

\* ------------------------------------------------------------------ crop

CropTop(scaled_height, h) == (scaled_height - h) \div 2
\* Mutant: the window's lower edge forgets the offset.
CropBottomNoOffset(h, crop_top) == h
CropBottom(h, crop_top) == h + crop_top
\* Mutant: the half is rounded up.
CropLeftRoundedUp(scaled_width, w) == (scaled_width - w + 1) \div 2
CropLeft(scaled_width, w) == (scaled_width - w) \div 2
CropRight(w, crop_left) == w + crop_left

\* The branch taken, the size passed to resize and the box passed to crop.
CropGeometry(w, h) ==
    IF w * height > h * width
       THEN LET scaled_height == (w * height) \div width
                crop_top == CropTop(scaled_height, h)
            IN  [branch |-> "vertical",
                 scaled |-> <<w, scaled_height>>,
                 box |-> <<0, crop_top, w, CropBottom(h, crop_top)>>]
       ELSE LET scaled_width == (h * width) \div height
                crop_left == CropLeft(scaled_width, w)
            IN  [branch |-> "horizontal",
                 scaled |-> <<scaled_width, h>>,
                 box |-> <<crop_left, 0, CropRight(w, crop_left), h>>]

\* What crop(w, h, output_type) does: the call records it can end in.
CropCalls(w, h, output_type) ==
    LET g == CropGeometry(w, h)
        call == [NoCall EXCEPT !.op = "crop", !.w = w, !.h = h, !.fmt = output_type,
                               !.scaled = g.scaled]
        scaled_image == PILResize(image, g.scaled)
    IN  IF scaled_image.raised # "None"
           THEN {[call EXCEPT !.raised = scaled_image.raised, !.stage = "resize"]}
           ELSE UNION {
                  IF cropped.raised # "None"
                     THEN {[call EXCEPT !.box = g.box, !.raised = cropped.raised,
                                        !.stage = "crop"]}
                     ELSE {[call EXCEPT !.box = g.box, !.raised = e.raised,
                                        !.stage = e.stage, !.out = e.out] :
                              e \in EncodeImage(cropped.image, output_type)} :
                  cropped \in PILCrop(scaled_image.image, g.box)}

Crop ==
    /\ init_raised = "None"
    /\ \E req \in Requests, t \in OutputTypes :
          ret' \in CropCalls(req[1], req[2], t)
    /\ UNCHANGED <<source, init_raised, image, width, height, transpose_method, hist>>

\* ------------------------------------------------------------------ spec

Next == Transpose \/ Aspect \/ Scale \/ Crop

Spec == Init /\ [][Next]_vars

\* ---------------------------------------------------------------- claims

Supported == DOMAIN FORMATS
ValidRequest == ret.w > 0 /\ ret.h > 0
Tagged == source.meta.kind = "int" /\ source.meta.value \in 2..8
Upright == <<1, 2, 3, 4>>

\* C1: for a positive source size and a positive box, aspect returns a size that
\* exceeds the box in neither dimension and meets it in at least one.
C1_AspectFitsBox ==
    (ret.op = "aspect" /\ ValidRequest) =>
        /\ ret.value[1] <= ret.w
        /\ ret.value[2] <= ret.h
        /\ (ret.value[1] = ret.w \/ ret.value[2] = ret.h)

\* An aspect call on a source wider than the box: the width meets the box, the
\* height stays below it.
C1_Witness ==
    /\ ret.op = "aspect" /\ ValidRequest
    /\ ret.value[1] = ret.w
    /\ ret.value[2] < ret.h
    /\ ret.value[2] > 0

\* C2: for a positive source size, a positive requested size and a supported
\* format, crop succeeds and the raster it encodes is exactly the requested
\* size, in either branch.
C2_CropExact ==
    (ret.op = "crop" /\ ValidRequest /\ ret.fmt \in Supported) =>
        /\ ret.raised = "None"
        /\ Len(ret.out) = 1
        /\ ret.out[1].size = <<ret.w, ret.h>>

\* A crop through the first branch (vertical excess) that cut rows away, the
\* window not starting at the top.
C2_Witness ==
    /\ ret.op = "crop" /\ ValidRequest /\ ret.fmt \in Supported
    /\ ret.scaled[1] = ret.w
    /\ ret.scaled[2] > ret.h
    /\ ret.box[2] > 0
    /\ Len(ret.out) = 1
    /\ ret.out[1].size = <<ret.w, ret.h>>

\* C3: the pending transform is applied to the raster at most once; a
\* transpose() after the first returns what the first returned and changes
\* neither the raster, nor the stored width and height, nor the (cleared)
\* pending transform.
C3_TransposeOnce ==
    /\ [][ (ret'.op = "transpose" /\ ret'.nth = 2) =>
              /\ transpose_method = "None"
              /\ image' = image
              /\ width' = width
              /\ height' = height
              /\ transpose_method' = transpose_method
              /\ hist'.applied = hist.applied
              /\ ret'.value = hist.first ]_vars
    /\ [](hist.applied <= 1)

\* A second transpose() on an instance whose first one turned the raster,
\* with scale, crop or aspect possibly called in between.
C3_Witness ==
    /\ ret.op = "transpose" /\ ret.nth = 2
    /\ Tagged
    /\ hist.applied = 1
    /\ image.corners # Upright
    /\ ret.value = hist.first

\* C4 as stated: scale and crop with an output type outside FORMATS fail with
\* the unsupported-format error (the KeyError of the FORMATS lookup) raised at
\* the encode step, and return no bytes.
C4_AsStated ==
    (ret.op \in {"scale", "crop"} /\ ret.fmt \notin Supported) =>
        /\ ret.raised = "KeyError"
        /\ ret.stage = "encode"
        /\ ret.out = <<>>

\* C4, amended: the same for a positive requested width and height.
C4_UnsupportedFormat ==
    (ret.op \in {"scale", "crop"} /\ ret.fmt \notin Supported /\ ValidRequest) =>
        /\ ret.raised = "KeyError"
        /\ ret.stage = "encode"
        /\ ret.out = <<>>

\* scale(100, 100, "image/gif"), resized and then refused by the encoder.
C4_Witness ==
    /\ ret.op = "scale" /\ ret.w = 100 /\ ret.h = 100 /\ ret.fmt = "image/gif"
    /\ ret.scaled = <<100, 100>>
    /\ ret.raised = "KeyError"
    /\ ret.out = <<>>

\* C5: construction never raises; when the metadata is absent, cannot be
\* parsed, or holds an orientation that is not one of 2..8, no transform is
\* pending, the raster is never transposed, and transpose() returns the
\* source's size.
C5_MalformedIsUntagged ==
    /\ init_raised = "None"
    /\ ~Tagged =>
          /\ transpose_method = "None"
          /\ image.size = source.size
          /\ image.corners = Upright
          /\ <<width, height>> = source.size
          /\ hist.applied = 0
          /\ (ret.op = "transpose" => ret.value = source.size)

\* transpose() called on an instance whose EXIF parse raised.
C5_Witness ==
    /\ source.meta.kind = "raises"
    /\ init_raised = "None"
    /\ ret.op = "transpose"
    /\ ret.value = source.size
    /\ image.corners = Upright

\* C6: with an orientation tag in 2..8, the first transpose() returns the
\* source's size with width and height exchanged for tags 5, 6, 7 and 8 and
\* as they were for tags 2, 3 and 4; both are positive.
C6_TransposeSize ==
    (ret.op = "transpose" /\ ret.nth = 1 /\ Tagged) =>
        /\ ret.value = IF source.meta.value \in {5, 6, 7, 8}
                          THEN <<source.size[2], source.size[1]>>
                          ELSE source.size
        /\ ret.value[1] > 0
        /\ ret.value[2] > 0

\* Tag 6 on a (100, 50) source gives (50, 100).
C6_Witness ==
    /\ source.size = <<100, 50>>
    /\ source.meta = [kind |-> "int", value |-> 6]
    /\ ret.op = "transpose" /\ ret.nth = 1
    /\ ret.value = <<50, 100>>

\* C7 as stated: a zero or negative width or height given to scale, crop or
\* aspect is refused with an invalid-dimension error, and neither resize nor
\* crop of the raster is reached.
C7_InvalidRejected ==
    (ret.op \in {"scale", "crop", "aspect"} /\ ~ValidRequest) =>
        /\ ret.raised = "InvalidDimensionError"
        /\ ret.scaled = <<>>
        /\ ret.box = <<>>
        /\ ret.value = <<>>
        /\ ret.out = <<>>

\* C8: scale, crop and aspect, succeeding or failing, leave self.image,
\* self.width, self.height and self.transpose_method as they were; a
\* transpose() that follows one of them with a transform pending applies it.
C8_CallsLeaveInstance ==
    /\ [][ ret'.op \in {"scale", "crop", "aspect"} =>
              /\ image' = image
              /\ width' = width
              /\ height' = height
              /\ transpose_method' = transpose_method ]_vars
    /\ [][ (ret.op \in {"scale", "crop", "aspect"} /\ transpose_method # "None"
            /\ ret'.op = "transpose") =>
              /\ hist.applied = 0
              /\ hist'.applied = 1
              /\ image'.corners = Permute(Upright, transpose_method)
              /\ transpose_method' = "None" ]_vars

\* A crop that failed, on an instance whose transform is still pending.
C8_Witness ==
    /\ ret.op = "crop"
    /\ ret.raised # "None"
    /\ transpose_method # "None"
    /\ image.corners = Upright
    /\ hist.applied = 0

\* C9: in crop with positive sizes, on each axis the window starts at
\* floor(excess / 2) >= 0 and ends inside the scaled raster, and what is cut
\* after the window is what is cut before it or one more; a 640 x 480 raster
\* cropped to 100 x 100 is scaled to 133 x 100 and cut to columns 16 to 116.
C9_CropCentred ==
    (ret.op = "crop" /\ ValidRequest) =>
        /\ ret.box # <<>>
        /\ (ret.scaled[1] = ret.w \/ ret.scaled[2] = ret.h)
        /\ \A axis \in {1, 2} :
              LET target == IF axis = 1 THEN ret.w ELSE ret.h
                  excess == ret.scaled[axis] - target
                  before == ret.box[axis]
                  after  == ret.scaled[axis] - ret.box[axis + 2]
              IN  /\ excess >= 0
                  /\ before = excess \div 2
                  /\ before >= 0
                  /\ after >= 0
                  /\ after - before \in {0, 1}
        /\ (<<width, height>> = <<640, 480>> /\ <<ret.w, ret.h>> = <<100, 100>>) =>
              (ret.scaled = <<133, 100>> /\ ret.box = <<16, 0, 116, 100>>)

\* The documented scenario: 640 x 480 cropped to 100 x 100, one more column
\* cut on the right than on the left.
C9_Witness ==
    /\ <<width, height>> = <<640, 480>>
    /\ ret.op = "crop" /\ <<ret.w, ret.h>> = <<100, 100>>
    /\ ret.scaled = <<133, 100>>
    /\ ret.box = <<16, 0, 116, 100>>
    /\ (133 - ret.box[3]) - ret.box[1] = 1

\* C10: the stored width and height are the size of the raster held, and
\* transpose() returns them.
C10_StoredSizeIsRasterSize ==
    /\ <<width, height>> = image.size
    /\ (ret.op = "transpose" => ret.value = <<width, height>>)

\* After a transpose() that exchanged width and height of a non-square source.
C10_Witness ==
    /\ ret.op = "transpose"
    /\ hist.applied = 1
    /\ image.size # source.size
    /\ <<width, height>> = image.size
====
